---- MODULE Spec2Model ----
(***************************************************************************)
(* Model of the trajectory tools of traj-estimator:                        *)
(*   global_to_world.py       the Trajectory Relativizer                   *)
(*   transform_coordinates.py the Extrinsic Compositor (A_T_C = A_T_B *    *)
(*                            inv(C_T_B))                                  *)
(*                                                                         *)
(* Numbers.  The programs compute in float64; the model computes the same  *)
(* expressions in exact arithmetic.                                        *)
(*   - A token of an input line is a record [kind, v]:                     *)
(*       "int"    the text of the integer v          ("90", "-1")          *)
(*       "pihalf" the text of the double nearest v*pi/2                    *)
(*                                            ("1.5707963267948966")       *)
(*       "junk"   text that float() rejects          ("abc")               *)
(*   - A unit quaternion is kept as the primitive integer vector           *)
(*     <<x, y, z, w>> that points the same way (the quaternion is          *)
(*     v / |v|); scipy's Rotation.from_quat normalises its argument, so    *)
(*     the integer rows "1 0 0 1" and "2 0 0 2" are the same rotation.     *)
(*   - The relativizer's positions are integers.  The compositor's SE(3)   *)
(*     entries are decimals with 12 fractional digits, kept as             *)
(*     [hi, lo] = hi * 10^-6 + lo * 10^-12 with 0 <= lo < 10^6, because    *)
(*     the hard-coded extrinsic has 6 fractional digits and its inverse    *)
(*     has 12.                                                             *)
(***************************************************************************)
EXTENDS Integers, Sequences, FiniteSets, TLC

VARIABLES tool, args, data, pc, err, origin, column_order, i,
          transformed_data, returned, file, C_T_B, C_T_B_inv, local

vars == <<tool, args, data, pc, err, origin, column_order, i,
          transformed_data, returned, file, C_T_B, C_T_B_inv, local>>

(***************************************************************************)
(* Bounds of the model.                                                    *)
(***************************************************************************)
\* longest input trajectory (rows of the input file)
MaxRows == 2
\* largest coordinate of the integer translations drawn by the algebra
\* specification
MaxCoord == 1

(***************************************************************************)
(* Integer helpers.                                                        *)
(***************************************************************************)
Abs(n) == IF n < 0 THEN -n ELSE n

RECURSIVE GCD(_, _)
GCD(a, b) == IF b = 0 THEN a ELSE GCD(b, a % b)

Dot3(u, v) == u[1] * v[1] + u[2] * v[2] + u[3] * v[3]

\* product of a 3x3 integer matrix (sequence of rows) and a 3-vector
MatVec(m, v) == <<Dot3(m[1], v), Dot3(m[2], v), Dot3(m[3], v)>>

Col3(m, c) == <<m[1][c], m[2][c], m[3][c]>>

\* numpy's m.T
Transpose3(m) == <<Col3(m, 1), Col3(m, 2), Col3(m, 3)>>

\* numpy's a @ b for 3x3 integer matrices
MatMul3(a, b) ==
  [r \in 1..3 |-> [c \in 1..3 |-> Dot3(a[r], Col3(b, c))]]

Identity3 == <<<<1, 0, 0>>, <<0, 1, 0>>, <<0, 0, 1>>>>

(***************************************************************************)
(* scipy.spatial.transform.Rotation, on unit quaternions kept as primitive *)
(* integer directions.                                                     *)
(***************************************************************************)
Norm2(q) == q[1] * q[1] + q[2] * q[2] + q[3] * q[3] + q[4] * q[4]

\* v / |v| as a primitive direction: divide by the gcd of the components
Normalize(q) ==
  LET g == GCD(GCD(Abs(q[1]), Abs(q[2])), GCD(Abs(q[3]), Abs(q[4])))
  IN  <<q[1] \div g, q[2] \div g, q[3] \div g, q[4] \div g>>

\* Rotation.from_quat: a 4-vector of non-zero norm, normalised
from_quat_ok(q) == Len(q) = 4 /\ Norm2(q) # 0

from_quat(q) == Normalize(q)

\* Rotation.inv: the conjugate
QuatInv(q) == <<-q[1], -q[2], -q[3], q[4]>>

\* Rotation.__mul__: p * q is the Hamilton product (q is applied first)
QuatMul(p, q) ==
  Normalize(<<p[4] * q[1] + p[1] * q[4] + p[2] * q[3] - p[3] * q[2],
              p[4] * q[2] - p[1] * q[3] + p[2] * q[4] + p[3] * q[1],
              p[4] * q[3] + p[1] * q[2] - p[2] * q[1] + p[3] * q[4],
              p[4] * q[4] - p[1] * q[1] - p[2] * q[2] - p[3] * q[3]>>)

\* Rotation.as_matrix.  The entries are integers over |q|^2; the division
\* is exact for the unit quaternions of the binary octahedral group (the
\* lifts of the 24 axis-aligned rotations), which is what the inputs are.
as_matrix(q) ==
  LET x == q[1]  y == q[2]  z == q[3]  w == q[4]  n == Norm2(q)
  IN  <<<<(x*x - y*y - z*z + w*w) \div n, (2 * (x*y - z*w)) \div n,
          (2 * (x*z + y*w)) \div n>>,
        <<(2 * (x*y + z*w)) \div n, (y*y - x*x - z*z + w*w) \div n,
          (2 * (y*z - x*w)) \div n>>,
        <<(2 * (x*z - y*w)) \div n, (2 * (y*z + x*w)) \div n,
          (z*z - x*x - y*y + w*w) \div n>>>>

\* Rotation.apply
Apply(q, v) == MatVec(as_matrix(q), v)

\* The 48 unit quaternions whose rotation matrix is a signed permutation.
Q48 ==
  {q \in [1..4 -> -1..1] : Norm2(q) \in {1, 2, 4}}

\* Two quaternions are the same rotation when they agree up to sign.
SameRotation(p, q) == p = q \/ p = <<-q[1], -q[2], -q[3], -q[4]>>

IdentityQuat == <<0, 0, 0, 1>>

(***************************************************************************)
(* Euler angles.  An angle is a parsed number [kind, v]; the `degrees`     *)
(* flag of from_euler / as_euler says which unit the number is in.  An     *)
(* angle is a whole number of quarter turns when it is 90*k with           *)
(* degrees=True or k*pi/2 with degrees=False; every other angle (90        *)
(* radians, 1.5707... degrees, ...) is not, because pi is irrational.      *)
(***************************************************************************)
IsQuarter(a, degrees) ==
  IF degrees THEN a.kind = "int" /\ a.v % 90 = 0
             ELSE (a.kind = "pihalf") \/ (a.kind = "int" /\ a.v = 0)

\* the angle in quarter turns
Quarters(a, degrees) ==
  IF a.kind = "pihalf" THEN a.v
  ELSE IF degrees THEN a.v \div 90 ELSE 0

\* <<sin, cos>> of half of k quarter turns, as a direction
HalfTurnDir(k) ==
  LET t == <<<<0, 1>>, <<1, 1>>, <<1, 0>>, <<1, -1>>,
             <<0, -1>>, <<-1, -1>>, <<-1, 0>>, <<-1, 1>>>>
  IN  t[(k % 8) + 1]

\* the quaternion of a rotation of k quarter turns about axis 1, 2 or 3
AxisQuat(axis, k) ==
  LET d == HalfTurnDir(k)
  IN  [c \in 1..4 |-> IF c = axis THEN d[1] ELSE IF c = 4 THEN d[2] ELSE 0]

\* Rotation.from_euler('xyz', angles, degrees).  Lower-case axes are
\* scipy's extrinsic sequence: rotate about the fixed x, then y, then z,
\* i.e. R = Rz(yaw) Ry(pitch) Rx(roll).  The result is a record: an exact
\* quaternion when the three angles are quarter turns, and otherwise the
\* unevaluated term from_euler(angles, degrees), which is never one of the
\* axis-aligned rotations when all three angles are in the same unit class.
from_euler(angles, degrees) ==
  IF \A k \in 1..3 : IsQuarter(angles[k], degrees)
  THEN [exact |-> TRUE,
        quat  |-> QuatMul(AxisQuat(3, Quarters(angles[3], degrees)),
                   QuatMul(AxisQuat(2, Quarters(angles[2], degrees)),
                           AxisQuat(1, Quarters(angles[1], degrees)))),
        angles |-> <<>>, degrees |-> degrees]
  ELSE [exact |-> FALSE, quat |-> <<>>,
        angles |-> angles, degrees |-> degrees]

\* a number in the unit the flag names
AngleNumber(k, degrees) ==
  IF degrees THEN [kind |-> "int", v |-> 90 * k]
  ELSE IF k = 0 THEN [kind |-> "int", v |-> 0]
  ELSE [kind |-> "pihalf", v |-> k]

\* Rotation.as_euler('xyz', degrees) of an axis-aligned rotation: the
\* angles scipy returns have the second in [-90, 90] and the first and
\* third in (-180, 180]; in gimbal lock (second = +-90) scipy sets the
\* third to zero.  Exactly one such triple gives each of the 24 rotations.
as_euler(q, degrees) ==
  LET cand == {t \in (-1..2) \X (-1..1) \X (-1..2) :
                 /\ (t[2] # 0 => t[3] = 0)
                 /\ SameRotation(
                      QuatMul(AxisQuat(3, t[3]),
                        QuatMul(AxisQuat(2, t[2]), AxisQuat(1, t[1]))), q)}
      t == CHOOSE c \in cand : TRUE
  IN  <<AngleNumber(t[1], degrees), AngleNumber(t[2], degrees),
        AngleNumber(t[3], degrees)>>

(***************************************************************************)
(* Input lines.  load_data splits every non-blank line into tokens.        *)
(***************************************************************************)
Tok(n) == [kind |-> "int", v |-> n]

PiHalf(k) == [kind |-> "pihalf", v |-> k]

Junk == [kind |-> "junk", v |-> 0]

\* float(token) raises ValueError on text that is no number; data[c] raises
\* IndexError when the row has no column c (columns count from 0).
ColErr(row, c) ==
  IF c + 1 > Len(row) THEN "IndexError"
  ELSE IF row[c + 1].kind = "junk" THEN "ValueError"
  ELSE ""

\* [float(data[i]) for i in cols] evaluates left to right: the error of the
\* first column that fails, "" when none does
ColsErr(row, cols) ==
  LET bad == {k \in 1..Len(cols) : ColErr(row, cols[k]) # ""}
  IN  IF bad = {} THEN ""
      ELSE ColErr(row, cols[CHOOSE k \in bad : \A j \in bad : k <= j])

\* float(data[c]) as a parsed number [kind, v]
Float(row, c) == row[c + 1]

\* the value of a time or position column (an integer token)
Val(row, c) == row[c + 1].v

NoPose == [err |-> "", time |-> 0, position |-> <<>>, orientation |-> <<>>]

(***************************************************************************)
(* global_to_world.py                                                      *)
(***************************************************************************)
\* parse_pose of global_to_world.py: time, position, and the orientation
\* columns as they are, whatever their number
G2W_parse_pose(row, a) ==
  LET e1 == ColErr(row, a.time_col)
      e2 == ColsErr(row, a.pos_cols)
      e3 == IF a.orient_format \in {"quat", "euler"}
            THEN ColsErr(row, a.orient_cols) ELSE "ValueError"
  IN  IF e1 # "" THEN [NoPose EXCEPT !.err = e1]
      ELSE IF e2 # "" THEN [NoPose EXCEPT !.err = e2]
      ELSE IF e3 # "" THEN [NoPose EXCEPT !.err = e3]
      ELSE [err |-> "",
            time |-> Val(row, a.time_col),
            position |-> [k \in 1..Len(a.pos_cols) |-> Val(row, a.pos_cols[k])],
            orientation |->
              [k \in 1..Len(a.orient_cols) |-> Float(row, a.orient_cols[k])]]

\* transform_data lines 110-113 and 121-124: the orientation as the
\* quaternion the computation uses.  from_euler wants as many angles as
\* axes; with 'quat' the array is passed on unchecked.
G2W_euler_rotation(orientation) == from_euler(orientation, TRUE)

G2W_to_quat(orientation, orient_format) ==
  IF orient_format = "euler"
  THEN IF Len(orientation) # 3 THEN [err |-> "ValueError", quat |-> <<>>]
       ELSE [err |-> "", quat |-> G2W_euler_rotation(orientation).quat]
  ELSE [err |-> "", quat |-> [k \in 1..Len(orientation) |-> orientation[k].v]]

compute_relative_time_shifted(current_time, origin_time) ==
  current_time - origin_time

compute_relative_time(current_time, origin_time) == current_time

Sub3(u, v) == <<u[1] - v[1], u[2] - v[2], u[3] - v[3]>>

compute_relative_position_unrotated(current_position, origin_pos, origin_quat) ==
  Sub3(current_position, origin_pos)

compute_relative_position(current_position, origin_pos, origin_quat) ==
  LET r_origin == from_quat(origin_quat)
      global_offset == Sub3(current_position, origin_pos)
  IN  Apply(QuatInv(r_origin), global_offset)

compute_relative_orientation_noinv(current_quat, origin_quat, orient_format) ==
  LET relative_rotation == QuatMul(from_quat(current_quat), from_quat(origin_quat))
  IN  IF orient_format = "quat" THEN relative_rotation
      ELSE as_euler(relative_rotation, TRUE)

compute_relative_orientation(current_quat, origin_quat, orient_format) ==
  LET r_origin == from_quat(origin_quat)
      r_current == from_quat(current_quat)
      relative_rotation == QuatMul(r_current, QuatInv(r_origin))
  IN  IF orient_format = "quat" THEN relative_rotation
      ELSE as_euler(relative_rotation, TRUE)

\* One pass of the loop body of transform_data (lines 118-132) on `row`
\* against the reference `o`: the error it raises, or the output row.
G2W_row(row, o, a) ==
  LET p == G2W_parse_pose(row, a)
      c == G2W_to_quat(p.orientation, a.orient_format)
  IN  IF p.err # "" THEN [err |-> p.err, row |-> <<>>, pose |-> p]
      ELSE IF c.err # "" THEN [err |-> c.err, row |-> <<>>, pose |-> p]
      ELSE IF ~from_quat_ok(o.quat) \/ ~from_quat_ok(c.quat)
        THEN [err |-> "ValueError", row |-> <<>>, pose |-> p]
      ELSE [err |-> "", pose |-> p,
            row |-> <<compute_relative_time(p.time, o.time)>>
                    \o compute_relative_position(p.position, o.position, o.quat)
                    \o compute_relative_orientation(c.quat, o.quat,
                                                    a.orient_format)]
\* transform_data lines 105-113: the reference pose of a well-formed first
\* row
G2W_origin(first_row, a) ==
  LET p == G2W_parse_pose(first_row, a)
      c == G2W_to_quat(p.orientation, a.orient_format)
  IN  [time |-> p.time, position |-> p.position, quat |-> c.quat]

(***************************************************************************)
(* State shared by the tools.                                              *)
(*   tool              the entry point that runs                           *)
(*   args              time_col, pos_cols, orient_cols, orient_format      *)
(*   data              the rows load_data returned                         *)
(*   pc, err           where the run is; the exception that ended it       *)
(*   origin            the reference pose taken from data[0]               *)
(*   i                 the row the loop is at (1-based)                    *)
(*   transformed_data  the list the loop appends to                        *)
(*   returned          what transform_data returned to its caller          *)
(*   file              the output file                                     *)
(*   C_T_B, C_T_B_inv  the compositor's extrinsic and its inverse          *)
(*   local             local values of the step last taken: the pose the   *)
(*                     last call of parse_pose returned (called = TRUE     *)
(*                     once there was a call), and the compositor's        *)
(*                     A_T_B and A_T_C                                     *)
(***************************************************************************)
NoOrigin == [time |-> 0, position |-> <<0, 0, 0>>, quat |-> <<>>]

NotReturned == [done |-> FALSE, rows |-> <<>>]

NoFile == [written |-> FALSE, lines |-> <<>>]

NoLocal == [called |-> FALSE, pose |-> NoPose, A_T_B |-> <<>>, A_T_C |-> <<>>]

Parsed(p) == [local EXCEPT !.called = TRUE, !.pose = p]

\* list.index: the first place of x in s
Index(s, x) == CHOOSE k \in 1..Len(s) : s[k] = x /\ \A j \in 1..(k - 1) : s[j] # x

InSeq(s, x) == \E k \in 1..Len(s) : s[k] = x

OrientNames(orient_format) ==
  IF orient_format = "quat" THEN <<"qx", "qy", "qz", "qw">>
  ELSE <<"roll", "pitch", "yaw">>

\* main lines 186-196: the name of column c of the first row ("" for a
\* column that is neither time, position nor orientation), or the
\* IndexError of naming an orientation column past the names of the format
ColumnName(c, a) ==
  IF c = a.time_col THEN "time"
  ELSE IF InSeq(a.pos_cols, c) THEN <<"x", "y", "z">>[Index(a.pos_cols, c)]
  ELSE IF InSeq(a.orient_cols, c)
    THEN IF Index(a.orient_cols, c) > Len(OrientNames(a.orient_format))
         THEN "IndexError"
         ELSE OrientNames(a.orient_format)[Index(a.orient_cols, c)]
  ELSE ""

ColumnOrder(first_row, a) ==
  SelectSeq([k \in 1..Len(first_row) |-> ColumnName(k - 1, a)],
            LAMBDA n : n # "")

\* save_data of global_to_world.py: every row rearranged by column_order
\* (the fixed-decimal formatting of a value is kept as the value)
G2W_line(row, order) ==
  [k \in 1..Len(order) |->
     IF order[k] = "time" THEN row[1]
     ELSE IF order[k] \in {"x", "y", "z"}
       THEN row[1 + Index(<<"x", "y", "z">>, order[k])]
     ELSE IF order[k] \in {"roll", "pitch", "yaw"}
       THEN row[4 + Index(<<"roll", "pitch", "yaw">>, order[k])]
     ELSE row[4 + Index(<<"qx", "qy", "qz", "qw">>, order[k])]]

G2W_save_data(rows, order) ==
  [written |-> TRUE, lines |-> [k \in 1..Len(rows) |-> G2W_line(rows[k], order)]]

Raise(e) ==
  /\ pc' = "error"
  /\ err' = e

\* main lines 183-196: load the rows, name the columns of the first one
G2W_Main ==
  /\ tool = "g2w.main"
  /\ pc = "main"
  /\ IF data = <<>>
       THEN Raise("IndexError") /\ UNCHANGED column_order
     ELSE IF InSeq(ColumnOrder(data[1], args), "IndexError")
       THEN Raise("IndexError") /\ UNCHANGED column_order
     ELSE /\ column_order' = ColumnOrder(data[1], args)
          /\ pc' = "origin"
          /\ UNCHANGED err
  /\ UNCHANGED <<tool, args, data, origin, i, transformed_data, returned,
                 file, C_T_B, C_T_B_inv, local>>

\* transform_data lines 104-115: the reference pose from data[0]
G2W_Origin ==
  /\ tool \in {"g2w.main", "g2w.transform_data"}
  /\ pc = "origin"
  /\ IF data = <<>>
       THEN /\ Raise("IndexError")
            /\ UNCHANGED <<origin, transformed_data, i, local>>
     ELSE LET p == G2W_parse_pose(data[1], args)
              c == G2W_to_quat(p.orientation, args.orient_format)
          IN  /\ local' = Parsed(p)
              /\ IF p.err # ""
                   THEN Raise(p.err) /\ UNCHANGED <<origin, transformed_data, i>>
                 ELSE IF c.err # ""
                   THEN Raise(c.err) /\ UNCHANGED <<origin, transformed_data, i>>
                 ELSE /\ origin' = [time |-> p.time, position |-> p.position,
                                    quat |-> c.quat]
                      /\ transformed_data' = <<>>
                      /\ i' = 1
                      /\ pc' = "loop"
                      /\ UNCHANGED err
  /\ UNCHANGED <<tool, args, data, column_order, returned, file, C_T_B,
                 C_T_B_inv>>

\* a plausible slip: the new row put in front of the list
G2W_Row_prepend ==
  /\ tool \in {"g2w.main", "g2w.transform_data"}
  /\ pc = "loop"
  /\ i <= Len(data)
  /\ LET r == G2W_row(data[i], origin, args)
     IN  /\ local' = Parsed(r.pose)
         /\ IF r.err # ""
              THEN Raise(r.err) /\ UNCHANGED <<transformed_data, i>>
            ELSE /\ transformed_data' = <<r.row>> \o transformed_data
                 /\ i' = i + 1
                 /\ UNCHANGED <<pc, err>>
  /\ UNCHANGED <<tool, args, data, origin, column_order, returned, file,
                 C_T_B, C_T_B_inv>>

\* a plausible slip: every row becomes the reference of the next one
G2W_Row_rebase ==
  /\ tool \in {"g2w.main", "g2w.transform_data"}
  /\ pc = "loop"
  /\ i <= Len(data)
  /\ LET r == G2W_row(data[i], origin, args)
     IN  /\ local' = Parsed(r.pose)
         /\ IF r.err # ""
              THEN Raise(r.err) /\ UNCHANGED <<transformed_data, i, origin>>
            ELSE /\ transformed_data' = Append(transformed_data, r.row)
                 /\ origin' = G2W_origin(data[i], args)
                 /\ i' = i + 1
                 /\ UNCHANGED <<pc, err>>
  /\ UNCHANGED <<tool, args, data, column_order, returned, file,
                 C_T_B, C_T_B_inv>>

\* transform_data lines 116-132: one row of the loop
G2W_Row ==
  /\ tool \in {"g2w.main", "g2w.transform_data"}
  /\ pc = "loop"
  /\ i <= Len(data)
  /\ LET r == G2W_row(data[i], origin, args)
     IN  /\ local' = Parsed(r.pose)
         /\ IF r.err # ""
              THEN Raise(r.err) /\ UNCHANGED <<transformed_data, i>>
            ELSE /\ transformed_data' = Append(transformed_data, r.row)
                 /\ i' = i + 1
                 /\ UNCHANGED <<pc, err>>
  /\ UNCHANGED <<tool, args, data, origin, column_order, returned, file,
                 C_T_B, C_T_B_inv>>

\* transform_data line 134: the loop is over, the list is returned
G2W_Return ==
  /\ tool \in {"g2w.main", "g2w.transform_data"}
  /\ pc = "loop"
  /\ i > Len(data)
  /\ returned' = [done |-> TRUE, rows |-> transformed_data]
  /\ pc' = IF tool = "g2w.main" THEN "save" ELSE "done"
  /\ UNCHANGED <<tool, args, data, err, origin, column_order, i,
                 transformed_data, file, C_T_B, C_T_B_inv, local>>

\* main line 202: save_data writes the returned rows
G2W_Save ==
  /\ tool = "g2w.main"
  /\ pc = "save"
  /\ file' = G2W_save_data(returned.rows, column_order)
  /\ pc' = "done"
  /\ UNCHANGED <<tool, args, data, err, origin, column_order, i,
                 transformed_data, returned, C_T_B, C_T_B_inv, local>>

(***************************************************************************)
(* Inputs.                                                                 *)
(***************************************************************************)
SeqsUpTo(S, n) == UNION {[1..k -> S] : k \in 0..n}

\* trajectories of at most MaxRows rows: the first from F, the rest from S
Trajectories(F, S) ==
  {<<>>} \cup {<<f>> \o s : f \in F, s \in SeqsUpTo(S, MaxRows - 1)}

QuatRow(t, p, q) ==
  <<Tok(t), Tok(p[1]), Tok(p[2]), Tok(p[3]),
    Tok(q[1]), Tok(q[2]), Tok(q[3]), Tok(q[4])>>

EulerRow(t, p, e) ==
  <<Tok(t), Tok(p[1]), Tok(p[2]), Tok(p[3]), e[1], e[2], e[3]>>

\* the column layout of the example call (lines 210-212)
Layout(cols, fmt) ==
  [time_col |-> 0, pos_cols |-> <<1, 2, 3>>, orient_cols |-> cols,
   orient_format |-> fmt]

QuatLayout == Layout(<<4, 5, 6, 7>>, "quat")

EulerLayout == Layout(<<4, 5, 6>>, "euler")

\* reference rows: every unit quaternion of Q48, at two times
FirstQuatRows ==
  {QuatRow(t, p, q) : t \in {0, 2}, p \in {<<1, -2, 3>>}, q \in Q48}

\* later rows: the identity, a quarter turn, a third of a turn, and a half
\* turn written with norm 2
LaterQuats ==
  {<<0, 0, 0, 1>>, <<1, 0, 0, 1>>, <<1, 1, 1, -1>>, <<0, 0, 2, 0>>}

LaterQuatRows ==
  {QuatRow(t, p, q) : t \in {1}, p \in {<<0, 0, 0>>, <<2, 0, -1>>},
                      q \in LaterQuats}

DegreeAngles == {Tok(0), Tok(90), Tok(180), Tok(-90)}

FirstEulerRows ==
  {EulerRow(t, p, e) : t \in {0, 2}, p \in {<<1, -2, 3>>},
                       e \in DegreeAngles \X DegreeAngles \X DegreeAngles}

LaterEulerRows ==
  {EulerRow(t, p, e) : t \in {1}, p \in {<<0, 0, 0>>, <<2, 0, -1>>},
                       e \in {<<Tok(0), Tok(0), Tok(0)>>,
                              <<Tok(90), Tok(0), Tok(180)>>,
                              <<Tok(270), Tok(90), Tok(-90)>>}}

\* rows that are well formed under one layout at most: a token that is no
\* number in the time, a position or an orientation column, a row cut
\* short, and two good rows
GoodRow == QuatRow(1, <<1, 0, 0>>, <<0, 0, 0, 1>>)

OddRows ==
  {GoodRow,
   EulerRow(2, <<0, 1, 0>>, <<Tok(90), Tok(0), Tok(0)>>),
   [GoodRow EXCEPT ![1] = Junk],
   [GoodRow EXCEPT ![3] = Junk],
   [GoodRow EXCEPT ![6] = Junk],
   SubSeq(GoodRow, 1, 3)}

OddLayouts ==
  {Layout(c, f) : c \in {<<4, 5, 6, 7>>, <<4, 5, 6>>},
                  f \in {"quat", "euler", "rpy"}}

\* the runs of the relativizer
G2W_Inputs ==
  ({QuatLayout} \X Trajectories(FirstQuatRows, LaterQuatRows))
  \cup ({EulerLayout} \X Trajectories(FirstEulerRows, LaterEulerRows))
  \cup (OddLayouts \X SeqsUpTo(OddRows, MaxRows))

G2W_Init ==
  /\ tool \in {"g2w.main", "g2w.transform_data"}
  /\ \E in \in G2W_Inputs : args = in[1] /\ data = in[2]
  /\ pc = IF tool = "g2w.main" THEN "main" ELSE "origin"
  /\ err = ""
  /\ origin = NoOrigin
  /\ column_order = <<>>
  /\ i = 1
  /\ transformed_data = <<>>
  /\ returned = NotReturned
  /\ file = NoFile
  /\ C_T_B = <<>>
  /\ C_T_B_inv = <<>>
  /\ local = NoLocal

G2W_Next == G2W_Main \/ G2W_Origin \/ G2W_Row \/ G2W_Return \/ G2W_Save

SpecG2W == G2W_Init /\ [][G2W_Next]_vars
(***************************************************************************)
(* Decimals with 12 fractional digits: [hi, lo] is hi*10^-6 + lo*10^-12,   *)
(* 0 <= lo < 10^6.  Sums, and products of two numbers with 6 fractional    *)
(* digits or of an integer and any number, are exact; these are the        *)
(* products the compositor forms on axis-aligned poses.                    *)
(***************************************************************************)
Scale == 1000 * 1000

WNorm(h, l) == [hi |-> h + (l \div Scale), lo |-> l % Scale]

\* the integer k
WInt(k) == [hi |-> k * Scale, lo |-> 0]

\* the decimal m * 10^-6
WDec(m) == [hi |-> m, lo |-> 0]

WAdd(a, b) == WNorm(a.hi + b.hi, a.lo + b.lo)

WNeg(a) == WNorm(-a.hi, -a.lo)

WIsInt(a) == a.lo = 0 /\ a.hi % Scale = 0

WScale(k, a) == WNorm(k * a.hi, k * a.lo)

\* the product of a*10^-6 and b*10^-6, by three-digit limbs so that no
\* intermediate value leaves 32 bits
Mul6(a, b) ==
  LET a1 == a \div 1000  a0 == a % 1000
      b1 == b \div 1000  b0 == b % 1000
      m  == a1 * b0 + a0 * b1
  IN  WNorm(a1 * b1 + (m \div 1000), (m % 1000) * 1000 + a0 * b0)

WMul(a, b) ==
  IF WIsInt(a) THEN WScale(a.hi \div Scale, b)
  ELSE IF WIsInt(b) THEN WScale(b.hi \div Scale, a)
  ELSE Mul6(a.hi, b.hi)

WZero == WInt(0)

WOne == WInt(1)

\* |a - b| <= tol * 10^-6
WClose(a, b, tol) ==
  LET d == WAdd(a, WNeg(b))
  IN  /\ WAdd(d, WDec(tol)).hi >= 0
      /\ WAdd(WNeg(d), WDec(tol)).hi >= 0

(***************************************************************************)
(* transform_coordinates.py                                                *)
(***************************************************************************)
\* np.eye(4) with the rotation and translation blocks set
transformation_to_se3(translation, rotation) ==
  [r \in 1..4 |-> [c \in 1..4 |->
     IF r <= 3 /\ c <= 3 THEN rotation[r][c]
     ELSE IF r <= 3 THEN translation[r]
     ELSE IF c = 4 THEN WOne ELSE WZero]]

RotationOf(matrix) == [r \in 1..3 |-> [c \in 1..3 |-> matrix[r][c]]]

TranslationOf(matrix) == [r \in 1..3 |-> matrix[r][4]]

WTranspose(m) == [r \in 1..3 |-> [c \in 1..3 |-> m[c][r]]]

\* -m @ v
WNegMatVec(m, v) ==
  [r \in 1..3 |->
     WAdd(WAdd(WMul(WNeg(m[r][1]), v[1]), WMul(WNeg(m[r][2]), v[2])),
          WMul(WNeg(m[r][3]), v[3]))]

\* a plausible slip: the translation of the inverse without the rotation
invert_se3_unrotated(matrix) ==
  transformation_to_se3([r \in 1..3 |-> WNeg(matrix[r][4])],
                        WTranspose(RotationOf(matrix)))

\* a plausible slip: the inverse with the rotation left as it is
invert_se3_untransposed(matrix) ==
  transformation_to_se3(WNegMatVec(RotationOf(matrix), TranslationOf(matrix)),
                        RotationOf(matrix))

invert_se3(matrix) ==
  LET rotation == RotationOf(matrix)
      translation == TranslationOf(matrix)
      inv_rotation == WTranspose(rotation)
      inv_translation == WNegMatVec(inv_rotation, translation)
  IN  transformation_to_se3(inv_translation, inv_rotation)

MatMul4(mat1, mat2) ==
  [r \in 1..4 |-> [c \in 1..4 |->
     WAdd(WAdd(WMul(mat1[r][1], mat2[1][c]), WMul(mat1[r][2], mat2[2][c])),
          WAdd(WMul(mat1[r][3], mat2[3][c]), WMul(mat1[r][4], mat2[4][c])))]]

multiply_se3(mat1, mat2) == MatMul4(mat1, mat2)

WVec(v) == [k \in 1..Len(v) |-> WInt(v[k])]

WMat(m) == [r \in 1..3 |-> [c \in 1..3 |-> WInt(m[r][c])]]

Identity4 == transformation_to_se3(WVec(<<0, 0, 0>>), WMat(Identity3))

\* lines 110-115: the hard-coded extrinsic, in units of 10^-6
C_T_B_translation == <<WDec(-19978), WDec(-75000), WDec(-36192)>>

C_T_B_rotation ==
  <<<<WDec(999168), WDec(-40781), WDec(593)>>,
    <<WDec(-40781), WDec(-999168), WDec(0)>>,
    <<WDec(592), WDec(-24), WDec(-1000000)>>>>

\* line 38: the rotation of an Euler row
TC_euler_rotation(o) == from_euler(o, FALSE)

NoRigid == [err |-> "", time |-> 0, position |-> <<>>, rotation |-> <<>>]

\* parse_pose of transform_coordinates.py: the orientation columns are
\* unpacked into exactly four (quat) or three (euler) names, and the
\* rotation matrix is built here
TC_parse_pose(row, a) ==
  LET e1 == ColErr(row, a.time_col)
      e2 == ColsErr(row, a.pos_cols)
      want == IF a.orient_format = "quat" THEN 4 ELSE 3
      e3 == IF a.orient_format \notin {"quat", "euler"} THEN "ValueError"
            ELSE IF ColsErr(row, a.orient_cols) # ""
              THEN ColsErr(row, a.orient_cols)
            ELSE IF Len(a.orient_cols) # want THEN "ValueError"
            ELSE IF a.orient_format = "quat"
                    /\ ~from_quat_ok([k \in 1..4 |-> Val(row, a.orient_cols[k])])
              THEN "ValueError"
            ELSE ""
      o == [k \in 1..Len(a.orient_cols) |-> Float(row, a.orient_cols[k])]
  IN  IF e1 # "" THEN [NoRigid EXCEPT !.err = e1]
      ELSE IF e2 # "" THEN [NoRigid EXCEPT !.err = e2]
      ELSE IF e3 # "" THEN [NoRigid EXCEPT !.err = e3]
      ELSE [err |-> "",
            time |-> Val(row, a.time_col),
            position |-> [k \in 1..Len(a.pos_cols) |-> Val(row, a.pos_cols[k])],
            rotation |->
              IF a.orient_format = "quat"
              THEN as_matrix(from_quat([k \in 1..4 |-> o[k].v]))
              ELSE as_matrix(TC_euler_rotation(o).quat)]

\* Rotation.from_matrix(m).as_quat() on a matrix in units of 10^-6:
\* scipy picks the largest of the diagonal entries and the trace, builds
\* the quaternion from it and normalises (numpy's argmax takes the first
\* of equal maxima)
from_matrix(m) ==
  LET trace == m[1][1] + m[2][2] + m[3][3]
      decision == <<m[1][1], m[2][2], m[3][3], trace>>
      choice == CHOOSE c \in 1..4 :
                  /\ \A d \in 1..4 : decision[d] <= decision[c]
                  /\ \A d \in 1..(c - 1) : decision[d] < decision[c]
      ii == choice
      jj == (ii % 3) + 1
      kk == (jj % 3) + 1
  IN  IF choice = 4
      THEN Normalize(<<m[3][2] - m[2][3], m[1][3] - m[3][1],
                       m[2][1] - m[1][2], Scale + trace>>)
      ELSE Normalize([c \in 1..4 |->
             IF c = ii THEN Scale - trace + 2 * m[ii][ii]
             ELSE IF c = jj THEN m[jj][ii] + m[ii][jj]
             ELSE IF c = kk THEN m[kk][ii] + m[ii][kk]
             ELSE m[kk][jj] - m[jj][kk]])

\* a rotation block whose entries have 6 fractional digits, in units of
\* 10^-6
Micro(m) == [r \in 1..3 |-> [c \in 1..3 |-> m[r][c].hi]]

\* the loop body (lines 124-136) on `row`
TC_row(row, cinv, a) ==
  LET p == TC_parse_pose(row, a)
      A_T_B == transformation_to_se3(WVec(p.position), WMat(p.rotation))
      A_T_C == multiply_se3(A_T_B, cinv)
  IN  IF p.err # "" THEN [err |-> p.err, row |-> <<>>, A_T_B |-> <<>>,
                          A_T_C |-> <<>>, pose |-> p]
      ELSE [err |-> "", pose |-> p,
            row |-> <<p.time>> \o TranslationOf(A_T_C)
                    \o from_matrix(Micro(RotationOf(A_T_C))),
            A_T_B |-> A_T_B, A_T_C |-> A_T_C]

\* save_data of transform_coordinates.py: every value of every row (the
\* fixed-decimal formatting of a value is kept as the value)
TC_save_data(rows) == [written |-> TRUE, lines |-> rows]

\* main lines 109-121: the extrinsic, its inverse, the rows
TC_Main ==
  /\ tool = "tc.main"
  /\ pc = "main"
  /\ C_T_B' = transformation_to_se3(C_T_B_translation, C_T_B_rotation)
  /\ C_T_B_inv' = invert_se3(C_T_B')
  /\ transformed_data' = <<>>
  /\ i' = 1
  /\ pc' = "loop"
  /\ UNCHANGED <<tool, args, data, err, origin, column_order, returned, file,
                 local>>

\* a plausible slip: a row that does not parse is skipped
TC_Row_skip ==
  /\ tool = "tc.main"
  /\ pc = "loop"
  /\ i <= Len(data)
  /\ LET r == TC_row(data[i], C_T_B_inv, args)
     IN  IF r.err # ""
           THEN /\ local' = Parsed(r.pose)
                /\ i' = i + 1
                /\ UNCHANGED <<transformed_data, pc, err>>
         ELSE /\ transformed_data' = Append(transformed_data, r.row)
              /\ local' = [called |-> TRUE, pose |-> r.pose,
                           A_T_B |-> r.A_T_B, A_T_C |-> r.A_T_C]
              /\ i' = i + 1
              /\ UNCHANGED <<pc, err>>
  /\ UNCHANGED <<tool, args, data, origin, column_order, returned, file,
                 C_T_B, C_T_B_inv>>

\* a plausible slip: the new row put in front of the list
TC_Row_prepend ==
  /\ tool = "tc.main"
  /\ pc = "loop"
  /\ i <= Len(data)
  /\ LET r == TC_row(data[i], C_T_B_inv, args)
     IN  IF r.err # ""
           THEN /\ Raise(r.err)
                /\ local' = Parsed(r.pose)
                /\ UNCHANGED <<transformed_data, i>>
         ELSE /\ transformed_data' = <<r.row>> \o transformed_data
              /\ local' = [called |-> TRUE, pose |-> r.pose,
                           A_T_B |-> r.A_T_B, A_T_C |-> r.A_T_C]
              /\ i' = i + 1
              /\ UNCHANGED <<pc, err>>
  /\ UNCHANGED <<tool, args, data, origin, column_order, returned, file,
                 C_T_B, C_T_B_inv>>

\* main lines 123-136: one row of the loop
TC_Row ==
  /\ tool = "tc.main"
  /\ pc = "loop"
  /\ i <= Len(data)
  /\ LET r == TC_row(data[i], C_T_B_inv, args)
     IN  IF r.err # ""
           THEN /\ Raise(r.err)
                /\ local' = Parsed(r.pose)
                /\ UNCHANGED <<transformed_data, i>>
         ELSE /\ transformed_data' = Append(transformed_data, r.row)
              /\ local' = [called |-> TRUE, pose |-> r.pose,
                           A_T_B |-> r.A_T_B, A_T_C |-> r.A_T_C]
              /\ i' = i + 1
              /\ UNCHANGED <<pc, err>>
  /\ UNCHANGED <<tool, args, data, origin, column_order, returned, file,
                 C_T_B, C_T_B_inv>>

\* main line 139: the loop is over, save_data writes the rows
TC_Save ==
  /\ tool = "tc.main"
  /\ pc = "loop"
  /\ i > Len(data)
  /\ file' = TC_save_data(transformed_data)
  /\ pc' = "done"
  /\ UNCHANGED <<tool, args, data, err, origin, column_order, i,
                 transformed_data, returned, C_T_B, C_T_B_inv, local>>

RadianAngles == {Tok(0), PiHalf(1), PiHalf(2), PiHalf(-1)}

FirstRadianRows ==
  {EulerRow(t, p, e) : t \in {0, 2}, p \in {<<1, -2, 3>>},
                       e \in RadianAngles \X RadianAngles \X RadianAngles}

LaterRadianRows ==
  {EulerRow(t, p, e) : t \in {1}, p \in {<<0, 0, 0>>, <<2, 0, -1>>},
                       e \in {<<Tok(0), Tok(0), Tok(0)>>,
                              <<PiHalf(1), Tok(0), PiHalf(2)>>,
                              <<PiHalf(3), PiHalf(1), PiHalf(-1)>>}}

TC_OddRows ==
  {GoodRow,
   EulerRow(2, <<0, 1, 0>>, <<PiHalf(1), Tok(0), Tok(0)>>),
   [GoodRow EXCEPT ![1] = Junk],
   [GoodRow EXCEPT ![3] = Junk],
   [GoodRow EXCEPT ![6] = Junk],
   SubSeq(GoodRow, 1, 3)}

\* the runs of the compositor
TC_Inputs ==
  ({QuatLayout} \X Trajectories(FirstQuatRows, LaterQuatRows))
  \cup ({EulerLayout} \X Trajectories(FirstRadianRows, LaterRadianRows))
  \cup (OddLayouts \X SeqsUpTo(TC_OddRows, MaxRows))

TC_Init ==
  /\ tool = "tc.main"
  /\ \E in \in TC_Inputs : args = in[1] /\ data = in[2]
  /\ pc = "main"
  /\ err = ""
  /\ origin = NoOrigin
  /\ column_order = <<>>
  /\ i = 1
  /\ transformed_data = <<>>
  /\ returned = NotReturned
  /\ file = NoFile
  /\ C_T_B = <<>>
  /\ C_T_B_inv = <<>>
  /\ local = NoLocal

TC_Next == TC_Main \/ TC_Row \/ TC_Save

(***************************************************************************)
(* The SE(3) primitives on their own: invert_se3 and multiply_se3 applied  *)
(* to rigid transforms with an orthonormal rotation.  local.T plays the    *)
(* extrinsic C_T_B and local.A a pose A_T_B.                               *)
(***************************************************************************)
Rotations == {as_matrix(q) : q \in Q48}

Coords == (-MaxCoord)..MaxCoord

Rigid(R, t) == transformation_to_se3(WVec(t), WMat(R))

SE3_Init ==
  /\ tool = "se3"
  /\ \E R \in Rotations, t \in Coords \X Coords \X Coords,
        q \in LaterQuats, p \in {<<1, -2, 3>>} :
       local = [R |-> R, t |-> t,
                T |-> Rigid(R, t), A |-> Rigid(as_matrix(from_quat(q)), p),
                inv |-> <<>>, T_Tinv |-> <<>>, A_T_C |-> <<>>, back |-> <<>>]
  /\ pc = "invert"
  /\ args = QuatLayout
  /\ data = <<>>
  /\ err = ""
  /\ origin = NoOrigin
  /\ column_order = <<>>
  /\ i = 1
  /\ transformed_data = <<>>
  /\ returned = NotReturned
  /\ file = NoFile
  /\ C_T_B = <<>>
  /\ C_T_B_inv = <<>>

\* inv = invert_se3(T)
SE3_Invert ==
  /\ tool = "se3"
  /\ pc = "invert"
  /\ local' = [local EXCEPT !.inv = invert_se3(local.T)]
  /\ pc' = "multiply"
  /\ UNCHANGED <<tool, args, data, err, origin, column_order, i,
                 transformed_data, returned, file, C_T_B, C_T_B_inv>>

\* T_Tinv = multiply_se3(T, inv), A_T_C = multiply_se3(A, inv)
SE3_Multiply ==
  /\ tool = "se3"
  /\ pc = "multiply"
  /\ local' = [local EXCEPT !.T_Tinv = multiply_se3(local.T, local.inv),
                            !.A_T_C = multiply_se3(local.A, local.inv)]
  /\ pc' = "compose"
  /\ UNCHANGED <<tool, args, data, err, origin, column_order, i,
                 transformed_data, returned, file, C_T_B, C_T_B_inv>>

\* back = multiply_se3(A_T_C, T)
SE3_Compose ==
  /\ tool = "se3"
  /\ pc = "compose"
  /\ local' = [local EXCEPT !.back = multiply_se3(local.A_T_C, local.T)]
  /\ pc' = "done"
  /\ UNCHANGED <<tool, args, data, err, origin, column_order, i,
                 transformed_data, returned, file, C_T_B, C_T_B_inv>>

SE3_Next == SE3_Invert \/ SE3_Multiply \/ SE3_Compose

\* the compositor's runs, and its primitives on orthonormal transforms
SpecTC == (TC_Init \/ SE3_Init) /\ [][TC_Next \/ SE3_Next]_vars
(***************************************************************************)
(* The sites that read or write Euler angles, applied to one Euler row:    *)
(* the relativizer's (lines 111 and 122, degrees=True), the compositor's   *)
(* (line 38, degrees=False) and the relativizer's output (line 89,         *)
(* as_euler with degrees=True) read back by the relativizer.               *)
(***************************************************************************)
\* the same rotation: two exact ones that agree up to the quaternion's
\* sign, or two unevaluated terms that are the same term.  A rotation by
\* quarter turns is never equal to one whose angles, all in one unit, are
\* not quarter turns.
SameEulerRotation(r1, r2) ==
  IF r1.exact /\ r2.exact THEN SameRotation(r1.quat, r2.quat)
  ELSE IF r1.exact # r2.exact THEN FALSE
  ELSE r1.angles = r2.angles /\ r1.degrees = r2.degrees

AngleTriples ==
  (DegreeAngles \X DegreeAngles \X DegreeAngles)
  \cup (RadianAngles \X RadianAngles \X RadianAngles)

NoRotation == [exact |-> FALSE, quat |-> <<>>, angles |-> <<>>,
               degrees |-> FALSE]

Euler_Init ==
  /\ tool = "euler"
  /\ \E e \in AngleTriples :
       /\ data = <<EulerRow(0, <<0, 0, 0>>, e)>>
       /\ local = [angles |-> <<e[1], e[2], e[3]>>, g2w |-> NoRotation,
                   tc |-> NoRotation, out |-> <<>>, back |-> NoRotation]
  /\ args = EulerLayout
  /\ pc = "relativizer"
  /\ err = ""
  /\ origin = NoOrigin
  /\ column_order = <<>>
  /\ i = 1
  /\ transformed_data = <<>>
  /\ returned = NotReturned
  /\ file = NoFile
  /\ C_T_B = <<>>
  /\ C_T_B_inv = <<>>

\* the relativizer reads the row
Euler_Relativizer ==
  /\ tool = "euler"
  /\ pc = "relativizer"
  /\ local' = [local EXCEPT !.g2w =
                 G2W_euler_rotation(G2W_parse_pose(data[1], args).orientation)]
  /\ pc' = "compositor"
  /\ UNCHANGED <<tool, args, data, err, origin, column_order, i,
                 transformed_data, returned, file, C_T_B, C_T_B_inv>>

\* the compositor reads the row
Euler_Compositor ==
  /\ tool = "euler"
  /\ pc = "compositor"
  /\ local' = [local EXCEPT !.tc = TC_euler_rotation(local.angles)]
  /\ pc' = "output"
  /\ UNCHANGED <<tool, args, data, err, origin, column_order, i,
                 transformed_data, returned, file, C_T_B, C_T_B_inv>>

\* the relativizer writes the rotation it read (relative to the identity)
\* as Euler angles, and reads them back
Euler_Output ==
  /\ tool = "euler"
  /\ pc = "output"
  /\ IF local.g2w.exact
       THEN LET out == compute_relative_orientation(local.g2w.quat,
                                                    IdentityQuat, "euler")
            IN  local' = [local EXCEPT !.out = out,
                                       !.back = G2W_euler_rotation(out)]
       ELSE UNCHANGED local
  /\ pc' = "done"
  /\ UNCHANGED <<tool, args, data, err, origin, column_order, i,
                 transformed_data, returned, file, C_T_B, C_T_B_inv>>

Euler_Next == Euler_Relativizer \/ Euler_Compositor \/ Euler_Output

(***************************************************************************)
(* The loop bodies as a map over the rows.  Both loops read the row, the   *)
(* layout and the shared reference (origin_* in transform_data, C_T_B_inv  *)
(* in main of transform_coordinates.py) and write one output row; here     *)
(* the rows are taken in any order and a row's read of the reference and   *)
(* its write of the output are separate steps, so the passes over          *)
(* different rows interleave.  transformed_data holds one slot per input   *)
(* row (<<>> while empty), local.phase[k] is where row k is, and           *)
(* local.ref[k] is the reference row k read.                               *)
(***************************************************************************)
MapQuats == {<<0, 0, 0, 1>>, <<1, 1, -1, 1>>, <<0, -1, 0, 1>>}

MapAngles ==
  {<<Tok(0), Tok(0), Tok(0)>>, <<Tok(90), Tok(0), Tok(-90)>>}

\* well-formed trajectories of 1..MaxRows rows
MapTrajectories(F, S) ==
  {<<f>> \o s : f \in F, s \in SeqsUpTo(S, MaxRows - 1)}

G2W_MapInputs ==
  ({QuatLayout} \X
     MapTrajectories({QuatRow(2, <<1, -2, 3>>, q) : q \in MapQuats},
                     LaterQuatRows))
  \cup
  ({EulerLayout} \X
     MapTrajectories({EulerRow(2, <<1, -2, 3>>, e) : e \in MapAngles},
                     LaterEulerRows))

TC_MapInputs ==
  {QuatLayout} \X
     MapTrajectories({QuatRow(2, <<1, -2, 3>>, q) : q \in MapQuats},
                     LaterQuatRows)

NoMap(n) == [phase |-> [k \in 1..n |-> "todo"], ref |-> [k \in 1..n |-> <<>>]]

\* the state at the top of the loop: the reference has been computed
Map_Init ==
  /\ tool \in {"g2w.map", "tc.map"}
  /\ \E in \in (IF tool = "g2w.map" THEN G2W_MapInputs ELSE TC_MapInputs) :
       args = in[1] /\ data = in[2]
  /\ pc = "map"
  /\ err = ""
  /\ origin = IF tool = "g2w.map" THEN G2W_origin(data[1], args) ELSE NoOrigin
  /\ C_T_B = IF tool = "tc.map"
             THEN transformation_to_se3(C_T_B_translation, C_T_B_rotation)
             ELSE <<>>
  /\ C_T_B_inv = IF tool = "tc.map" THEN invert_se3(C_T_B) ELSE <<>>
  /\ column_order = <<>>
  /\ i = 1
  /\ transformed_data = [k \in 1..Len(data) |-> <<>>]
  /\ returned = NotReturned
  /\ file = NoFile
  /\ local = NoMap(Len(data))

\* the pass over some row starts: it reads the shared reference
Map_Read ==
  /\ tool \in {"g2w.map", "tc.map"}
  /\ pc = "map"
  /\ \E k \in 1..Len(data) :
       /\ local.phase[k] = "todo"
       /\ local' = [local EXCEPT !.phase[k] = "read",
                      !.ref[k] = IF tool = "g2w.map" THEN origin ELSE C_T_B_inv]
  /\ UNCHANGED <<tool, args, data, pc, err, origin, column_order, i,
                 transformed_data, returned, file, C_T_B, C_T_B_inv>>

\* the pass over some row ends: its output row goes to its position
Map_Write ==
  /\ tool \in {"g2w.map", "tc.map"}
  /\ pc = "map"
  /\ \E k \in 1..Len(data) :
       /\ local.phase[k] = "read"
       /\ transformed_data' =
            [transformed_data EXCEPT ![k] =
               IF tool = "g2w.map"
               THEN G2W_row(data[k], local.ref[k], args).row
               ELSE TC_row(data[k], local.ref[k], args).row]
       /\ local' = [local EXCEPT !.phase[k] = "done"]
  /\ UNCHANGED <<tool, args, data, pc, err, origin, column_order, i,
                 returned, file, C_T_B, C_T_B_inv>>

\* every row is done: the list is the result
Map_Return ==
  /\ tool \in {"g2w.map", "tc.map"}
  /\ pc = "map"
  /\ \A k \in 1..Len(data) : local.phase[k] = "done"
  /\ returned' = [done |-> TRUE, rows |-> transformed_data]
  /\ pc' = "done"
  /\ UNCHANGED <<tool, args, data, err, origin, column_order, i,
                 transformed_data, file, C_T_B, C_T_B_inv, local>>

Map_Next == Map_Read \/ Map_Write \/ Map_Return

(***************************************************************************)
(* Both tools, the SE(3) primitives, the Euler sites and the map.          *)
(***************************************************************************)
Init == G2W_Init \/ TC_Init \/ SE3_Init \/ Euler_Init \/ Map_Init

Next == G2W_Next \/ TC_Next \/ SE3_Next \/ Euler_Next \/ Map_Next

Spec == Init /\ [][Next]_vars
(***************************************************************************)
(* Properties.                                                             *)
(***************************************************************************)
Relativizer == tool \in {"g2w.main", "g2w.transform_data"}

Compositor == tool = "tc.main"

Range(q) == {q[k] : k \in 1..Len(q)}

\* a row that the caller's layout cannot read: an unsupported encoding
\* tag, a column the row does not have, or a token that is no number
Malformed(row, a) ==
  \/ a.orient_format \notin {"quat", "euler"}
  \/ \E c \in {a.time_col} \cup Range(a.pos_cols) \cup Range(a.orient_cols) :
       c >= Len(row) \/ row[c + 1].kind = "junk"

\* the number of orientation indices does not fit the encoding
CountMismatch(a) ==
  \/ a.orient_format = "quat" /\ Len(a.orient_cols) # 4
  \/ a.orient_format = "euler" /\ Len(a.orient_cols) # 3

\* translation (0,0,0) and the identity orientation, in the encoding of
\* the run
IsReferenceRow(r, a) ==
  /\ SubSeq(r, 2, 4) = <<0, 0, 0>>
  /\ IF a.orient_format = "quat"
       THEN Len(r) = 8 /\ SameRotation(SubSeq(r, 5, 8), IdentityQuat)
       ELSE Len(r) = 7 /\ SubSeq(r, 5, 7) = <<Tok(0), Tok(0), Tok(0)>>

\* C1: in the relativizer, as soon as row 0 has been relativized (against
\* itself: the reference is data[0]), output row 0 has translation (0,0,0)
\* and the identity orientation, quaternion (0,0,0,1) up to sign or Euler
\* (0,0,0), in the list under construction and in the list returned.
C1_ReferenceRowIsIdentity ==
  Relativizer =>
    /\ Len(transformed_data) >= 1 => IsReferenceRow(transformed_data[1], args)
    /\ Len(returned.rows) >= 1 => IsReferenceRow(returned.rows[1], args)

\* a two-row trajectory whose reference is a third of a turn away from the
\* origin has been relativized
C1_Witness ==
  /\ tool = "g2w.main"
  /\ pc = "done"
  /\ origin.quat = <<1, 1, -1, 1>>
  /\ origin.position = <<1, -2, 3>>
  /\ Len(returned.rows) = 2

\* C2: a relativizer run on a trajectory of 0 or 1 well-formed rows does
\* not raise; what it returns has as many rows as the input, and the one
\* row of a length-1 trajectory has translation 0 and identity orientation.
C2_ShortTrajectoryIsValid ==
  (/\ Relativizer
   /\ args \in {QuatLayout, EulerLayout}
   /\ Len(data) <= 1
   /\ \A k \in 1..Len(data) : ~Malformed(data[k], args))
  => /\ pc # "error"
     /\ returned.done =>
          /\ Len(returned.rows) = Len(data)
          /\ \A k \in 1..Len(returned.rows) :
               IsReferenceRow(returned.rows[k], args)

\* C3: conversion is all-or-nothing in both tools.  A run that raised has
\* returned no list and written no file; and a run whose input holds a
\* malformed row, whichever row it is, never completes, never returns a
\* list and never writes the output file.
C3_AllOrNothing ==
  (Relativizer \/ Compositor) =>
    /\ pc = "error" => err # "" /\ ~returned.done /\ ~file.written
    /\ (\E k \in 1..Len(data) : Malformed(data[k], args)) =>
         pc # "done" /\ ~returned.done /\ ~file.written

\* the compositor converted one row and raised on the second, malformed one
C3_Witness ==
  /\ Compositor
  /\ pc = "error"
  /\ Len(data) = 2
  /\ Len(transformed_data) = 1
  /\ Malformed(data[2], args)
  /\ ~Malformed(data[1], args)
  /\ ~file.written

\* C4: with a wrong number of orientation indices for the encoding, every
\* call of parse_pose, in either tool, fails (returns no pose).
C4_CountMismatchFailsAtParse ==
  ((Relativizer \/ Compositor) /\ CountMismatch(args) /\ local.called)
  => local.pose.err # ""

\* C5: the relativizer preserves row order and count: while the loop runs
\* the list holds one row per input row read so far, output row k is the
\* relativization of input row k against the reference, and the list
\* returned has exactly as many rows as the input.
C5_OrderAndCount ==
  Relativizer =>
    /\ pc = "loop" => Len(transformed_data) = i - 1
    /\ \A k \in 1..Len(transformed_data) :
         transformed_data[k] = G2W_row(data[k], origin, args).row
    /\ returned.done =>
         returned.rows = transformed_data /\ Len(returned.rows) = Len(data)

\* two different rows came back
C5_Witness ==
  /\ tool = "g2w.transform_data"
  /\ returned.done
  /\ Len(returned.rows) = 2
  /\ returned.rows[1] # returned.rows[2]

C7_ExactRecovery ==
  /\ (Compositor /\ local.called /\ local.pose.err = "") =>
       multiply_se3(local.A_T_C, C_T_B) = local.A_T_B
  /\ (tool = "se3" /\ pc = "done") => local.back = local.A
  /\ (tool = "se3" /\ pc \in {"compose", "done"} /\ local.T = Identity4) =>
       local.A_T_C = local.A

\* C7 amended: exact for every orthonormal extrinsic (and A_T_C = A_T_B for
\* the identity); for the hard-coded extrinsic, whose rotation is
\* orthonormal only to its 6 decimals, the translation column and the
\* bottom row come back exactly and every rotation entry within 10^-6.
C7_Recovery ==
  /\ (Compositor /\ local.called /\ local.pose.err = "") =>
       LET back == multiply_se3(local.A_T_C, C_T_B)
       IN  /\ \A r \in 1..3 : back[r][4] = local.A_T_B[r][4]
           /\ back[4] = local.A_T_B[4]
           /\ \A r \in 1..3, c \in 1..3 :
                WClose(back[r][c], local.A_T_B[r][c], 1)
  /\ (tool = "se3" /\ pc = "done") => local.back = local.A
  /\ (tool = "se3" /\ pc \in {"compose", "done"} /\ local.T = Identity4) =>
       local.A_T_C = local.A

\* the compositor converted a second row whose rotation is not the identity
C7_Witness ==
  /\ Compositor
  /\ local.called
  /\ local.pose.err = ""
  /\ i = 3
  /\ local.pose.rotation # Identity3
  /\ local.pose.position = <<2, 0, -1>>

Neg3(v) == <<-v[1], -v[2], -v[3]>>

\* C8: for T = [R t; 0 1] with R orthonormal, invert_se3(T) is
\* [R^T, -R^T t; 0 1] and multiply_se3(T, invert_se3(T)) is the identity
\* transform.
C8_InverseIdentity ==
  tool = "se3" =>
    /\ pc \in {"multiply", "compose", "done"} =>
         local.inv = Rigid(Transpose3(local.R),
                           Neg3(MatVec(Transpose3(local.R), local.t)))
    /\ pc \in {"compose", "done"} => local.T_Tinv = Identity4

\* a third of a turn with a translation along every axis was inverted and
\* multiplied
C8_Witness ==
  /\ tool = "se3"
  /\ pc = "done"
  /\ local.R = as_matrix(<<1, 1, 1, 1>>)
  /\ local.t = <<1, -1, 1>>

\* C9: the compositor's output has one row per input row read, in input
\* order; every row is [time, tx, ty, tz, qx, qy, qz, qw], 8 values with a
\* quaternion that is not zero and the time of the same input row,
\* whatever the input encoding; and the file holds those rows, as many as
\* the input has.
C9_OutputShape ==
  Compositor =>
    /\ pc = "loop" => Len(transformed_data) = i - 1
    /\ \A k \in 1..Len(transformed_data) :
         LET r == transformed_data[k]
         IN  /\ Len(r) = 8
             /\ r[1] = data[k][args.time_col + 1].v
             /\ SubSeq(r, 2, 4) =
                  TranslationOf(TC_row(data[k], C_T_B_inv, args).A_T_C)
             /\ SubSeq(r, 5, 8) # <<0, 0, 0, 0>>
             /\ \A c \in 5..8 : r[c] \in Int
    /\ file.written =>
         file.lines = transformed_data /\ Len(file.lines) = Len(data)

\* two different Euler rows were converted and written
C9_Witness ==
  /\ Compositor
  /\ file.written
  /\ Len(file.lines) = 2
  /\ args.orient_format = "euler"
  /\ file.lines[1] # file.lines[2]

\* C10: the relativizer and the compositor read the same Euler row as the
\* same rotation, and the Euler angles the relativizer writes are read
\* back by the relativizer as the rotation they were written from.
C10_OneAngleUnit ==
  (tool = "euler" /\ pc = "done") =>
    /\ SameEulerRotation(local.g2w, local.tc)
    /\ local.g2w.exact => SameEulerRotation(local.back, local.g2w)

\* the position and the rotation matrix of an input row, read straight from
\* its columns
RowPosition(row, a) == [k \in 1..3 |-> row[a.pos_cols[k] + 1].v]

RowRotation(row, a) ==
  IF a.orient_format = "quat"
  THEN as_matrix([k \in 1..4 |-> row[a.orient_cols[k] + 1].v])
  ELSE as_matrix(from_euler([k \in 1..3 |-> row[a.orient_cols[k] + 1]],
                            TRUE).quat)

\* the rotation matrix an output row of the relativizer stands for
OutRotation(r, a) ==
  IF a.orient_format = "quat" THEN as_matrix(SubSeq(r, 5, 8))
  ELSE as_matrix(from_euler(SubSeq(r, 5, 7), TRUE).quat)

\* R0^T (pi - p0) and Ri R0^T, computed on matrices
RelativePose(row, first, a) ==
  LET R0 == RowRotation(first, a)
  IN  [translation |->
         MatVec(Transpose3(R0),
                Sub3(RowPosition(row, a), RowPosition(first, a))),
       rotation |-> MatMul3(RowRotation(row, a), Transpose3(R0))]

\* C11: every output row of the relativizer has translation R0^T (pi - p0)
\* and an orientation that is the rotation Ri R0^T, where (p0, R0) is the
\* pose of row 0 and (pi, Ri) the pose of the same input row; when R0 is
\* the identity the translation is pi - p0 and the orientation is Ri, and
\* with the reference quaternion (0,0,0,1) the output quaternion is qi
\* itself (as a unit quaternion).
C11_RelativePose ==
  (Relativizer /\ args \in {QuatLayout, EulerLayout}) =>
    \A k \in 1..Len(transformed_data) :
      LET r == transformed_data[k]
          ref == RelativePose(data[k], data[1], args)
      IN  /\ SubSeq(r, 2, 4) = ref.translation
          /\ OutRotation(r, args) = ref.rotation
          /\ RowRotation(data[1], args) = Identity3 =>
               /\ SubSeq(r, 2, 4) = Sub3(RowPosition(data[k], args),
                                         RowPosition(data[1], args))
               /\ OutRotation(r, args) = RowRotation(data[k], args)
          /\ (args.orient_format = "quat" /\ origin.quat = IdentityQuat) =>
               SubSeq(r, 5, 8) =
                 Normalize([c \in 1..4 |-> data[k][args.orient_cols[c] + 1].v])

\* a row displaced along two axes and turned a quarter turn was relativized
\* against a reference that is a third of a turn away from the identity
C11_Witness ==
  /\ Relativizer
  /\ args = QuatLayout
  /\ returned.done
  /\ Len(returned.rows) = 2
  /\ origin.quat = <<1, 1, -1, 1>>
  /\ RowPosition(data[2], args) = <<2, 0, -1>>
  /\ RowRotation(data[2], args) = as_matrix(<<1, 0, 0, 1>>)
  /\ returned.rows[2] = <<1>> \o RelativePose(data[2], data[1], args).translation
                            \o SubSeq(returned.rows[2], 5, 8)
  /\ SubSeq(returned.rows[2], 2, 4) # <<1, 2, -4>>

\* the shared reference as the code computes it before the first row
Extrinsic == transformation_to_se3(C_T_B_translation, C_T_B_rotation)

\* row k of the sequential pass of either tool
SequentialRow(k) ==
  IF tool \in {"g2w.main", "g2w.transform_data", "g2w.map"}
  THEN G2W_row(data[k], G2W_origin(data[1], args), args).row
  ELSE TC_row(data[k], invert_se3(Extrinsic), args).row

====
